---- MODULE Spec2Model ----
(***************************************************************************)
(* A model of colle-content (src/src/main.rs): the scan of a PDF's text    *)
(* for "CCINP <n>" exercise numbers, the page-by-page merge of one PDF     *)
(* into another, the per-week pipeline generate_fat_pdf and the loop of    *)
(* main that runs it for every week of the list.                           *)
(***************************************************************************)
EXTENDS Integers, Sequences, FiniteSets, TLC

VARIABLES
    \* extract_exercise_numbers
    epc,        \* position in the scan: "start", "pages", "blocks", "lines", "done"
    nPages,     \* pages the page iterator has yielded so far
    nBlocks,    \* blocks yielded so far
    text,       \* the line strings collected so far, in document order
    res,        \* the Vec<i32> being accumulated
    eresult,    \* "none" while scanning, then "Ok" or "Err"
    \* merge_pdf_document
    mpc,        \* position in the merge: "start", "find", "copy", "done"
    src,        \* the source document: its pages' dictionaries and their ancestors'
    dest,       \* the destination document: its object table and page sequence
    graft_map,  \* the graft map of this call: pairs <<source object, dest object>>
    pageIdx,    \* i: the index of the source page being copied
    nameIdx,    \* the index in to_copy of the next name to copy
    dest_page,  \* the dictionary of the destination page being built
    graftCalls, \* the graft_object calls made so far
    mresult,    \* "none" while merging, then "Ok" or "Err"
    \* main and generate_fat_pdf
    ppc,        \* position in main and, within a week, in generate_fat_pdf
    week_list,  \* the urls fetch_week_list returned
    wi,         \* i: the index of the week of the loop's turn
    files,      \* the directory: the file of each output name
    files0,     \* the directory as main found it
    skipped,    \* the weeks reported skipped
    generated,  \* the weeks generate_fat_pdf was called for
    failed,     \* the weeks reported failed
    pdf,        \* the bytes of the colle PDF
    doc,        \* the document opened from them
    exercise_numbers,
    extracted,  \* whether extract_exercise_numbers has returned Ok
    exercises_pdf,  \* the bytes of the exercises PDF
    reqs,       \* the urls requested by this call of generate_fat_pdf
    mergeCalls, \* the calls of merge_pdf_document by this call
    appended,   \* the pages the merge had appended when it returned
    saved,      \* "none", or the outcome of doc.save: "Ok" or "Err"
    failedAt,   \* the stage whose error this call returns, "" if none
    gresult     \* "none", or what this call returns: "Ok" or "Err"

evars == <<epc, nPages, nBlocks, text, res, eresult>>

mvars == <<mpc, src, dest, graft_map, pageIdx, nameIdx, dest_page, graftCalls, mresult>>

pvars == <<ppc, week_list, wi, files, files0, skipped, generated, failed, pdf, doc,
           exercise_numbers, extracted, exercises_pdf, reqs, mergeCalls, appended,
           saved, failedAt, gresult>>

vars == <<evars, mvars, pvars>>

----------------------------------------------------------------------------
(* Bounds of the model.                                                    *)

MaxPages == 2
MaxBlocks == 2
MaxLines == 3
MaxSrcPages == 2
MaxDestPages == 2
MaxWeeks == 2

----------------------------------------------------------------------------
(* Strings.  Rust indices are 0-based byte offsets; s[a..b] is             *)
(* SubSeq(s, a + 1, b).                                                    *)

None == -1

Slice(s, a, b) == SubSeq(s, a + 1, b)

SetMin(S) == CHOOSE x \in S : \A y \in S : x <= y

\* str::find(pat): the offset of the first occurrence of pat in s, or None.
Find(s, pat) ==
    LET hits == {i \in 0..(Len(s) - Len(pat)) : Slice(s, i, i + Len(pat)) = pat}
    IN  IF hits = {} THEN None ELSE SetMin(hits)

Contains(seq, x) == \E k \in 1..Len(seq) : seq[k] = x

I32Max == 2147483647

DigitChars == {"0", "1", "2", "3", "4", "5", "6", "7", "8", "9"}

DigitVal(c) ==
    CASE c = "0" -> 0 [] c = "1" -> 1 [] c = "2" -> 2 [] c = "3" -> 3
      [] c = "4" -> 4 [] c = "5" -> 5 [] c = "6" -> 6 [] c = "7" -> 7
      [] c = "8" -> 8 [] c = "9" -> 9

ParseErr == [ok |-> FALSE, val |-> 0]

\* The digit loop of i32::from_str: checked_mul(10) then checked_add(d)
\* (checked_sub(d) for a negative number), any non-digit an error.
RECURSIVE ParseDigits(_, _, _, _)
ParseDigits(s, k, acc, positive) ==
    IF k > Len(s) THEN [ok |-> TRUE, val |-> acc]
    ELSE LET c == Slice(s, k - 1, k) IN
         IF c \notin DigitChars THEN ParseErr
         ELSE LET d == DigitVal(c)
                  posLimit == (I32Max - d) \div 10
                  negLimit == IF d = 0 THEN I32Max \div 10
                              ELSE (I32Max - (d - 1)) \div 10
              IN  IF positive
                  THEN IF acc > posLimit THEN ParseErr
                       ELSE ParseDigits(s, k + 1, acc * 10 + d, positive)
                  ELSE IF acc < -negLimit THEN ParseErr
                       ELSE ParseDigits(s, k + 1, acc * 10 - d, positive)

\* str::parse::<i32>(): an optional single sign, then at least one digit,
\* the value within the 32-bit signed range.
ParseI32(s) ==
    IF Len(s) = 0 THEN ParseErr
    ELSE LET c == Slice(s, 0, 1) IN
         IF c \in {"+", "-"} /\ Len(s) = 1 THEN ParseErr
         ELSE IF c = "+" THEN ParseDigits(s, 2, 0, TRUE)
         ELSE IF c = "-" THEN ParseDigits(s, 2, 0, FALSE)
         ELSE ParseDigits(s, 1, 0, TRUE)

----------------------------------------------------------------------------
(* extract_exercise_numbers                                                *)

ccinp == "CCINP "

\* A character of a text line that has no char() value.
Undecodable == "#"

\* line.chars().filter_map(|c| c.char()).collect::<String>()
RECURSIVE LineString(_)
LineString(raw) ==
    IF Len(raw) = 0 THEN ""
    ELSE LET c == Slice(raw, 0, 1)
             rest == LineString(Slice(raw, 1, Len(raw)))
         IN  IF c = Undecodable THEN rest ELSE c \o rest

\* Where the candidate starts in the line string, or None without a marker.
ExerciseNumberStart(string) ==
    LET at == Find(string, ccinp)
    IN  IF at = None THEN None ELSE at + Len(ccinp)

ExerciseNumberEnd(string, start) ==
    LET sp == Find(Slice(string, start, Len(string)), " ")
    IN  IF sp = None THEN Len(string) ELSE start + sp

\* A candidate that does not parse counted as 0 instead of skipped.
ExerciseNumberOrDefault(string) ==
    LET start == ExerciseNumberStart(string)
    IN  IF start = None THEN ParseErr
        ELSE [ok |-> TRUE,
              val |-> ParseI32(Slice(string, start, ExerciseNumberEnd(string, start))).val]

\* The exercise number of one line: ok is FALSE when the line is skipped
\* (no marker, or a candidate that does not parse).
ExerciseNumber(string) ==
    LET start == ExerciseNumberStart(string)
    IN  IF start = None THEN ParseErr
        ELSE ParseI32(Slice(string, start, ExerciseNumberEnd(string, start)))

\* The push without the test for an element already there.
PushAlways(v, n) == Append(v, n)

\* if !res.contains(&exercise_number) { res.push(exercise_number); }
PushNew(v, n) == IF Contains(v, n) THEN v ELSE Append(v, n)

\* The body of the loop over lines, for one raw line.
ProcessLine(v, raw) ==
    LET p == ExerciseNumber(LineString(raw))
    IN  IF p.ok THEN PushNew(v, p.val) ELSE v

\* The raw lines a document's text is drawn from.
Lines ==
    { "CCINP 12 foo CCINP 7 CCINP 12",
      "CCINP 12",
      "Ex CCINP 7 bis",
      "CC#INP 7",
      "CCINP abc",
      "CCINP -5",
      "CCINP +3",
      "CCINP 2147483648",
      "CCINP  7",
      "foo" }

ExtractFail ==
    /\ epc' = "done"
    /\ eresult' = "Err"
    /\ UNCHANGED <<nPages, nBlocks, text, res>>

\* for page in doc.pages()?
OpenPages ==
    /\ epc = "start"
    /\ \/ /\ epc' = "pages"
          /\ UNCHANGED <<nPages, nBlocks, text, res, eresult>>
       \/ ExtractFail
    /\ UNCHANGED <<mvars, pvars>>

\* One turn of the page loop: the iterator ends (Ok(res)), or yields a page
\* that fails to load or to render as text, or yields a text page.
NextPage ==
    /\ epc = "pages"
    /\ \/ /\ epc' = "done"
          /\ eresult' = "Ok"
          /\ UNCHANGED <<nPages, nBlocks, text, res>>
       \/ /\ nPages < MaxPages
          /\ \/ /\ epc' = "blocks"
                /\ nPages' = nPages + 1
                /\ UNCHANGED <<nBlocks, text, res, eresult>>
             \/ ExtractFail
    /\ UNCHANGED <<mvars, pvars>>

\* for block in text_page.blocks()
NextBlock ==
    /\ epc = "blocks"
    /\ \/ /\ epc' = "pages"
          /\ UNCHANGED <<nPages, nBlocks, text, res, eresult>>
       \/ /\ nBlocks < MaxBlocks
          /\ epc' = "lines"
          /\ nBlocks' = nBlocks + 1
          /\ UNCHANGED <<nPages, text, res, eresult>>
    /\ UNCHANGED <<mvars, pvars>>

\* for line in block.lines(): the whole loop body for one line.
NextLine ==
    /\ epc = "lines"
    /\ \/ /\ epc' = "blocks"
          /\ UNCHANGED <<nPages, nBlocks, text, res, eresult>>
       \/ /\ Len(text) < MaxLines
          /\ \E raw \in Lines :
                /\ text' = Append(text, LineString(raw))
                /\ res' = ProcessLine(res, raw)
          /\ UNCHANGED <<epc, nPages, nBlocks, eresult>>
    /\ UNCHANGED <<mvars, pvars>>

----------------------------------------------------------------------------
(* PDF objects.  A dictionary is a set of pairs <<name, value>> with at    *)
(* most one pair per name.  A value is an indirect reference to an object  *)
(* of its document's table, or a direct number or name.                    *)

Ref(n) == [kind |-> "ref", v |-> n]
Num(n) == [kind |-> "int", v |-> n]
\* The name /Page (names are numbered; /Page is name 0).
PageName == [kind |-> "name", v |-> 0]
\* No object: the None of an Option<PdfObject>.
NoObj == [kind |-> "none", v |-> 0]

HasKey(d, name) == \E p \in d : p[1] = name
DictGet(d, name) == (CHOOSE p \in d : p[1] = name)[2]
\* PdfObject::dict_put: binds name to v, replacing an earlier binding.
DictPut(d, name, v) == {p \in d : p[1] # name} \cup {<<name, v>>}

\* PdfObject::get_dict_inheritable: the page's own value of name, else that of
\* its nearest ancestor in the page tree that has one, else None.
RECURSIVE ChainGet(_, _, _)
ChainGet(chain, name, j) ==
    IF j > Len(chain) THEN NoObj
    ELSE IF HasKey(chain[j], name) THEN DictGet(chain[j], name)
    ELSE ChainGet(chain, name, j + 1)

\* The lookup in the page's own dictionary alone (get_dict).
GetDictOwn(s, page, name) ==
    IF HasKey(s.pages[page + 1], name) THEN DictGet(s.pages[page + 1], name) ELSE NoObj

GetDictInheritable(s, page, name) ==
    ChainGet(<<s.pages[page + 1]>> \o s.anc, name, 1)

\* The objects each object of the source document refers to: 2 (a resource
\* dictionary) uses 5 (a font), which uses 6, which refers back to 5.
SrcRefs == <<<<>>, <<5>>, <<>>, <<>>, <<6>>, <<5>>>>

MapHas(m, n) == \E p \in m : p[1] = n
MapGet(m, n) == (CHOOSE p \in m : p[1] = n)[2]

\* GraftMap::graft_object on an indirect object: an object grafted before is
\* not copied again; a new one gets a slot of the destination table, and the
\* objects it refers to are grafted through the same map.
RECURSIVE GraftIndirect(_, _)
RECURSIVE GraftRefs(_, _, _)
GraftIndirect(g, n) ==
    IF MapHas(g.map, n) THEN g
    ELSE LET t == Append(g.table, [o |-> "graft", from |-> n, dict |-> {}])
         IN  GraftRefs([map |-> g.map \cup {<<n, Len(t)>>}, table |-> t], SrcRefs[n], 1)

GraftRefs(g, refs, j) ==
    IF j > Len(refs) THEN g
    ELSE GraftRefs(GraftIndirect(g, refs[j]), refs, j + 1)

\* GraftMap::graft_object: the destination's equivalent of a source value.
GraftObject(g, v) ==
    IF v.kind = "ref"
    THEN LET g2 == GraftIndirect(g, v.v)
         IN  [map |-> g2.map, table |-> g2.table, val |-> Ref(MapGet(g2.map, v.v))]
    ELSE [map |-> g.map, table |-> g.table, val |-> v]

----------------------------------------------------------------------------
(* merge_pdf_document                                                      *)

to_copy ==
    << "Contents", "Resources", "MediaBox", "CropBox", "BleedBox",
       "TrimBox", "ArtBox", "Rotate", "UserUnit" >>

\* The dictionaries the source pages are drawn from.
PageDicts ==
    { {},
      {<<"Contents", Ref(3)>>},
      {<<"Contents", Ref(1)>>, <<"Resources", Ref(2)>>, <<"MediaBox", Num(595)>>},
      {<<"Contents", Ref(3)>>, <<"Resources", Ref(2)>>, <<"Rotate", Num(90)>>,
       <<"Annots", Ref(4)>>},
      {<<"Contents", Ref(1)>>, <<"Resources", Ref(5)>>, <<"MediaBox", Num(595)>>,
       <<"CropBox", Num(500)>>, <<"BleedBox", Num(510)>>, <<"TrimBox", Num(490)>>,
       <<"ArtBox", Num(480)>>, <<"Rotate", Num(0)>>, <<"UserUnit", Num(2)>>,
       <<"Annots", Ref(4)>>, <<"Group", Num(1)>>} }

\* The ancestors of the source pages, nearest first.
AncestorChains ==
    { <<>>,
      << {<<"Resources", Ref(2)>>, <<"MediaBox", Num(612)>>} >>,
      << {<<"Rotate", Num(180)>>, <<"CropBox", Num(600)>>},
         {<<"Resources", Ref(2)>>, <<"MediaBox", Num(612)>>, <<"Rotate", Num(0)>>} >> }

SeqsUpTo(S, n) == UNION {[1..m -> S] : m \in 0..n}

SrcDocs == [anc : AncestorChains, pages : SeqsUpTo(PageDicts, MaxSrcPages)]

\* A destination with m pages: objects 1..m of its table, in page order.
DestDoc(m) ==
    [table |-> [j \in 1..m |-> [o |-> "old", from |-> j, dict |-> {}]],
     pages |-> [j \in 1..m |-> j]]

\* A call that fails: the `?` returns its error from merge_pdf_document.
MergeFail ==
    /\ mpc' = "done"
    /\ mresult' = "Err"
    /\ UNCHANGED <<src, dest, graft_map, pageIdx, nameIdx, dest_page, graftCalls>>

\* let page_count = src.page_count()?; let mut graft_map = dest.new_graft_map()?;
page_count == Len(src.pages)

OpenMerge ==
    /\ mpc = "start"
    /\ \/ /\ mpc' = "find"
          /\ graft_map' = {}
          /\ UNCHANGED <<src, dest, pageIdx, nameIdx, dest_page, graftCalls, mresult>>
       \/ MergeFail
    /\ UNCHANGED <<evars, pvars>>

\* One turn of `for i in 0..page_count`: the loop ends (Ok(())), or the page
\* is found and a dictionary tagged Type = Page is created for its copy.
FindPage ==
    /\ mpc = "find"
    /\ \/ /\ pageIdx >= page_count
          /\ mpc' = "done"
          /\ mresult' = "Ok"
          /\ UNCHANGED <<src, dest, graft_map, pageIdx, nameIdx, dest_page, graftCalls>>
       \/ /\ pageIdx < page_count
          /\ \/ /\ mpc' = "copy"
                /\ dest_page' = DictPut({}, "Type", PageName)
                /\ nameIdx' = 1
                /\ UNCHANGED <<src, dest, graft_map, pageIdx, graftCalls, mresult>>
             \/ MergeFail
    /\ UNCHANGED <<evars, pvars>>

\* The graft through a map made anew for the call of graft_object.
GraftAttrFreshMap(map, table, v) == GraftObject([map |-> {}, table |-> table], v)

\* graft_map.graft_object(&src_obj)?: every graft goes through the one map
\* of the call of merge_pdf_document.
GraftAttr(map, table, v) == GraftObject([map |-> map, table |-> table], v)

\* The body of `for name in to_copy` for one name, every call succeeding:
\* st holds the graft map, the destination's table and the page being built.
CopyName(st, s, page, name) ==
    LET src_obj == GetDictInheritable(s, page, name)
    IN  IF src_obj = NoObj THEN st
        ELSE LET g == GraftAttr(st.map, st.table, src_obj)
             IN  [map |-> st.map \cup g.map, table |-> g.table,
                  dict |-> DictPut(st.dict, name, g.val)]

\* One turn of `for name in to_copy`.
CopyAttr ==
    /\ mpc = "copy"
    /\ nameIdx <= Len(to_copy)
    /\ \/ LET st == CopyName([map |-> graft_map, table |-> dest.table, dict |-> dest_page],
                             src, pageIdx, to_copy[nameIdx])
          IN  /\ graft_map' = st.map
              /\ dest' = [dest EXCEPT !.table = st.table]
              /\ dest_page' = st.dict
              /\ graftCalls' = IF GetDictInheritable(src, pageIdx, to_copy[nameIdx]) = NoObj
                               THEN graftCalls ELSE graftCalls + 1
              /\ nameIdx' = nameIdx + 1
              /\ UNCHANGED <<mpc, src, pageIdx, mresult>>
       \/ MergeFail
    /\ UNCHANGED <<evars, pvars>>

\* The new page inserted before the destination's first page.
InsertIndexFront(d) == 0

\* The index the new page is inserted at: dest.page_count()?.
InsertIndex(d) == Len(d.pages)

\* PdfDocument::insert_page: the page becomes the page at index at.
InsertPage(pages, at, obj) ==
    SubSeq(pages, 1, at) \o <<obj>> \o SubSeq(pages, at + 1, Len(pages))

\* dest.insert_page(dest.page_count()?, &dest_page)? for the object added last.
InsertNewPage(d) ==
    [d EXCEPT !.pages = InsertPage(d.pages, InsertIndex(d), Len(d.table))]

\* dest.add_object(&dest_page)?
AddObject(d, page, from) ==
    [d EXCEPT !.table = Append(d.table, [o |-> "page", from |-> from, dict |-> page])]

\* The end of the loop body, once every name of to_copy has been handled:
\* dest.add_object(&dest_page)?; dest.insert_page(dest.page_count()?, &dest_page)?;
AddPage ==
    /\ mpc = "copy"
    /\ nameIdx > Len(to_copy)
    /\ LET added == AddObject(dest, dest_page, pageIdx)
       IN  \/ /\ dest' = InsertNewPage(added)
              /\ pageIdx' = pageIdx + 1
              /\ mpc' = "find"
              /\ UNCHANGED <<src, graft_map, nameIdx, dest_page, graftCalls, mresult>>
           \/ /\ dest' = added
              /\ mpc' = "done"
              /\ mresult' = "Err"
              /\ UNCHANGED <<src, graft_map, pageIdx, nameIdx, dest_page, graftCalls>>
           \/ MergeFail
    /\ UNCHANGED <<evars, pvars>>

----------------------------------------------------------------------------
(* The whole of merge_pdf_document and of extract_exercise_numbers, as     *)
(* generate_fat_pdf calls them.                                            *)

RECURSIVE BuildPage(_, _, _, _)
BuildPage(st, s, page, n) ==
    IF n > Len(to_copy) THEN st
    ELSE BuildPage(CopyName(st, s, page, to_copy[n]), s, page, n + 1)

\* One turn of `for i in 0..page_count`, every call succeeding.
MergeOnePage(m, s, page) ==
    LET st == BuildPage([map |-> m.map, table |-> m.dest.table,
                         dict |-> DictPut({}, "Type", PageName)], s, page, 1)
    IN  [map |-> st.map,
         dest |-> InsertNewPage(AddObject([m.dest EXCEPT !.table = st.table],
                                          st.dict, page))]

\* The destination after the first n pages of s have been appended to d.
RECURSIVE MergePages(_, _, _)
MergePages(d, s, n) ==
    IF n = 0 THEN [map |-> {}, dest |-> d]
    ELSE MergeOnePage(MergePages(d, s, n - 1), s, n - 1)

\* The Vec of a scan that reads every line.
RECURSIVE ExtractLines(_, _)
ExtractLines(lines, n) ==
    IF n = 0 THEN <<>> ELSE ProcessLine(ExtractLines(lines, n - 1), lines[n])

----------------------------------------------------------------------------
(* main and generate_fat_pdf                                               *)

\* format!("{}.pdf", i + 1)
OutputFilename(week) == ToString(week + 1) \o ".pdf"

FileNames == {OutputFilename(j) : j \in 0..(MaxWeeks - 1)}

NoFile == [exists |-> FALSE, by |-> "none", content |-> <<>>]
OldFile == [exists |-> TRUE, by |-> "old", content |-> <<>>]
PartialFile == [exists |-> TRUE, by |-> "partial", content |-> <<>>]

\* The pages of a document, in order: what a saved file holds.
PagesOf(d) == [x \in 1..Len(d.pages) |-> d.table[d.pages[x]]]

\* The texts of the colle PDFs the server may answer with, line by line.
PrimaryTexts ==
    { <<"foo">>,
      <<"CCINP abc", "CCINP  7">>,
      <<"CCINP 12">>,
      <<"CCINP 12", "Ex CCINP 7 bis", "CCINP 12">> }

NoBytes == [kind |-> "none", npages |-> 0, text |-> <<>>,
            src |-> [anc |-> <<>>, pages |-> <<>>]]
Garbage == [NoBytes EXCEPT !.kind = "garbage"]

PrimaryBytes ==
    {[NoBytes EXCEPT !.kind = "pdf", !.npages = m, !.text = t] :
        m \in 1..2, t \in PrimaryTexts} \cup {Garbage}

\* The exercise PDFs the server may answer with.
SecondaryDocs ==
    { [anc |-> <<>>, pages |-> <<>>],
      [anc |-> << {<<"Resources", Ref(2)>>, <<"MediaBox", Num(612)>>} >>,
       pages |-> << {<<"Contents", Ref(3)>>} >>],
      [anc |-> <<>>,
       pages |-> << {<<"Contents", Ref(1)>>, <<"Resources", Ref(2)>>,
                     <<"MediaBox", Num(595)>>},
                    {<<"Contents", Ref(3)>>, <<"Resources", Ref(2)>>,
                     <<"Rotate", Num(90)>>, <<"Annots", Ref(4)>>} >>] }

SecondaryBytes == {[NoBytes EXCEPT !.kind = "pdf", !.src = s] : s \in SecondaryDocs}
                      \cup {Garbage}

NoDoc == [live |-> FALSE, table |-> <<>>, pages |-> <<>>, text |-> <<>>]

\* PdfDocument::from_bytes on bytes that are a PDF.
FromBytes(b) ==
    [live |-> TRUE, table |-> DestDoc(b.npages).table,
     pages |-> DestDoc(b.npages).pages, text |-> b.text]

\* exercise_numbers.iter().map(|n| n.to_string()).collect::<Vec<String>>().join(",")
RECURSIVE Join(_, _)
Join(nums, n) ==
    IF n = 0 THEN ""
    ELSE IF n = 1 THEN ToString(nums[1])
    ELSE Join(nums, n - 1) \o "," \o ToString(nums[n])

\* format!("https://ccinp.mpsi1.fr/{}.pdf", tmp)
ExercisesUri(nums) == "https://ccinp.mpsi1.fr/" \o Join(nums, Len(nums)) \o ".pdf"

\* The url of a week of the list.
WeekUrl(week) == "https://mp1.prepa-carnot.fr/week" \o ToString(week + 1) \o ".pdf"

\* The exercises are fetched whatever the extraction found.
NeedsExercisesAlways(nums) == TRUE

\* if !exercise_numbers.is_empty()
NeedsExercises(nums) == nums # <<>>

\* The error of the merge dropped: the save follows a failed merge too.
AfterMergeIgnoringErr(result) == "save"

\* merge_pdf_document(&mut doc, &exercises_doc)?: where generate_fat_pdf goes on.
AfterMerge(result) == IF result = "Err" THEN "return" ELSE "save"

\* The error of a week returned from main (generate_fat_pdf(..).await?).
AfterRunPropagating(result) == IF result = "Err" THEN "done" ELSE "loop"

\* if let Err(err) = generate_fat_pdf(..).await { eprintln!(..) }: the loop goes on.
AfterRun(result) == "loop"

\* The locals of generate_fat_pdf before its first statement, and once it
\* has returned and they are dropped.
RunLocals ==
    /\ pdf' = NoBytes
    /\ doc' = NoDoc
    /\ exercise_numbers' = <<>>
    /\ extracted' = FALSE
    /\ exercises_pdf' = NoBytes
    /\ reqs' = <<>>
    /\ mergeCalls' = 0
    /\ appended' = 0
    /\ saved' = "none"
    /\ failedAt' = ""
    /\ gresult' = "none"

\* generate_fat_pdf returns Err from the stage named.
RunFails(stage) ==
    /\ ppc' = "return"
    /\ gresult' = "Err"
    /\ failedAt' = stage

mainvars == <<week_list, wi, files, files0, skipped, generated, failed>>

\* let week_list = fetch_week_list(&mut client).await?;
FetchWeekList ==
    /\ ppc = "fetch_week_list"
    /\ \/ \E n \in 0..MaxWeeks :
             /\ week_list' = [j \in 1..n |-> WeekUrl(j - 1)]
             /\ ppc' = "loop"
       \/ /\ ppc' = "done_err"
          /\ UNCHANGED week_list
       \/ /\ ppc' = "panic"
          /\ UNCHANGED week_list
    /\ UNCHANGED <<wi, files, files0, skipped, generated, failed>>
    /\ UNCHANGED <<pdf, doc, exercise_numbers, extracted, exercises_pdf, reqs,
                   mergeCalls, appended, saved, failedAt, gresult>>
    /\ UNCHANGED <<evars, mvars>>

\* One turn of `for (i, pdf_url) in week_list.iter().enumerate()` up to the
\* call of generate_fat_pdf: the file's metadata decides whether the week is
\* skipped; any error but NotFound panics.
LoopTop ==
    /\ ppc = "loop"
    /\ \/ /\ wi >= Len(week_list)
          /\ ppc' = "done_ok"
          /\ UNCHANGED <<wi, skipped, generated>>
          /\ UNCHANGED <<pdf, doc, exercise_numbers, extracted, exercises_pdf, reqs,
                         mergeCalls, appended, saved, failedAt, gresult>>
       \/ /\ wi < Len(week_list)
          /\ files[OutputFilename(wi)].exists
          /\ skipped' = skipped \cup {wi}
          /\ wi' = wi + 1
          /\ UNCHANGED <<ppc, generated>>
          /\ UNCHANGED <<pdf, doc, exercise_numbers, extracted, exercises_pdf, reqs,
                         mergeCalls, appended, saved, failedAt, gresult>>
       \/ /\ wi < Len(week_list)
          /\ ~files[OutputFilename(wi)].exists
          /\ generated' = generated \cup {wi}
          /\ ppc' = "request"
          /\ RunLocals
          /\ UNCHANGED <<wi, skipped>>
       \/ /\ wi < Len(week_list)
          /\ ppc' = "panic"
          /\ UNCHANGED <<wi, skipped, generated>>
          /\ UNCHANGED <<pdf, doc, exercise_numbers, extracted, exercises_pdf, reqs,
                         mergeCalls, appended, saved, failedAt, gresult>>
    /\ UNCHANGED <<week_list, files, files0, failed>>
    /\ UNCHANGED <<evars, mvars>>

\* The request for the colle PDF, the status test and the read of the body.
FetchPrimary ==
    /\ ppc = "request"
    /\ reqs' = Append(reqs, week_list[wi + 1])
    /\ \/ /\ RunFails("primary_request")
          /\ UNCHANGED pdf
       \/ /\ RunFails("primary_status")
          /\ UNCHANGED pdf
       \/ /\ RunFails("primary_body")
          /\ UNCHANGED pdf
       \/ /\ \E b \in PrimaryBytes : pdf' = b
          /\ ppc' = "parse"
          /\ UNCHANGED <<failedAt, gresult>>
    /\ UNCHANGED <<doc, exercise_numbers, extracted, exercises_pdf, mergeCalls,
                   appended, saved>>
    /\ UNCHANGED mainvars
    /\ UNCHANGED <<evars, mvars>>

\* let mut doc = match PdfDocument::from_bytes(&pdf) { .. }
ParsePrimary ==
    /\ ppc = "parse"
    /\ \/ /\ pdf.kind # "pdf"
          /\ RunFails("primary_parse")
          /\ UNCHANGED doc
       \/ /\ pdf.kind = "pdf"
          /\ doc' = FromBytes(pdf)
          /\ ppc' = "extract"
          /\ UNCHANGED <<failedAt, gresult>>
    /\ UNCHANGED <<pdf, exercise_numbers, extracted, exercises_pdf, reqs, mergeCalls,
                   appended, saved>>
    /\ UNCHANGED mainvars
    /\ UNCHANGED <<evars, mvars>>

\* let exercise_numbers = extract_exercise_numbers(&doc)?; and the test that
\* follows it.
Extract ==
    /\ ppc = "extract"
    /\ \/ /\ RunFails("extract")
          /\ UNCHANGED <<exercise_numbers, extracted>>
       \/ LET nums == ExtractLines(doc.text, Len(doc.text))
          IN  /\ exercise_numbers' = nums
              /\ extracted' = TRUE
              /\ ppc' = IF NeedsExercises(nums) THEN "request2" ELSE "save"
              /\ UNCHANGED <<failedAt, gresult>>
    /\ UNCHANGED <<pdf, doc, exercises_pdf, reqs, mergeCalls, appended, saved>>
    /\ UNCHANGED mainvars
    /\ UNCHANGED <<evars, mvars>>

\* The request for the exercises PDF, the status test and the read of the body.
FetchExercises ==
    /\ ppc = "request2"
    /\ reqs' = Append(reqs, ExercisesUri(exercise_numbers))
    /\ \/ /\ RunFails("exercises_request")
          /\ UNCHANGED exercises_pdf
       \/ /\ RunFails("exercises_status")
          /\ UNCHANGED exercises_pdf
       \/ /\ RunFails("exercises_body")
          /\ UNCHANGED exercises_pdf
       \/ /\ \E b \in SecondaryBytes : exercises_pdf' = b
          /\ ppc' = "merge"
          /\ UNCHANGED <<failedAt, gresult>>
    /\ UNCHANGED <<pdf, doc, exercise_numbers, extracted, mergeCalls, appended, saved>>
    /\ UNCHANGED mainvars
    /\ UNCHANGED <<evars, mvars>>

\* let exercises_doc = PdfDocument::from_bytes(&exercises_pdf)?;
\* merge_pdf_document(&mut doc, &exercises_doc)?;
\* A merge that fails has appended some of the pages, but not the last one.
ParseAndMerge ==
    /\ ppc = "merge"
    /\ \/ /\ exercises_pdf.kind # "pdf"
          /\ RunFails("exercises_parse")
          /\ UNCHANGED <<doc, mergeCalls, appended>>
       \/ /\ exercises_pdf.kind = "pdf"
          /\ mergeCalls' = mergeCalls + 1
          /\ LET s == exercises_pdf.src
                 d == [table |-> doc.table, pages |-> doc.pages]
             IN  \/ LET m == MergePages(d, s, Len(s.pages)).dest
                    IN  /\ doc' = [doc EXCEPT !.table = m.table, !.pages = m.pages]
                        /\ appended' = Len(s.pages)
                        /\ ppc' = AfterMerge("Ok")
                        /\ UNCHANGED <<failedAt, gresult>>
                 \/ \E n \in 0..Len(s.pages) :
                        /\ n < Len(s.pages) \/ n = 0
                        /\ LET m == MergePages(d, s, n).dest
                           IN  doc' = [doc EXCEPT !.table = m.table, !.pages = m.pages]
                        /\ appended' = n
                        /\ ppc' = AfterMerge("Err")
                        /\ gresult' = IF AfterMerge("Err") = "return" THEN "Err" ELSE gresult
                        /\ failedAt' = "merge"
    /\ UNCHANGED <<pdf, exercise_numbers, extracted, exercises_pdf, reqs, saved>>
    /\ UNCHANGED mainvars
    /\ UNCHANGED <<evars, mvars>>

\* doc.save(output_filename)?; Ok(()): a save that fails leaves no file, or
\* a part of one.
Save ==
    /\ ppc = "save"
    /\ \/ /\ files' = [files EXCEPT ![OutputFilename(wi)] =
                         [exists |-> TRUE, by |-> "save", content |-> PagesOf(doc)]]
          /\ saved' = "Ok"
          /\ gresult' = "Ok"
          /\ ppc' = "return"
          /\ UNCHANGED failedAt
       \/ /\ \E f \in {files[OutputFilename(wi)], PartialFile} :
                files' = [files EXCEPT ![OutputFilename(wi)] = f]
          /\ saved' = "Err"
          /\ RunFails("save")
    /\ UNCHANGED <<pdf, doc, exercise_numbers, extracted, exercises_pdf, reqs,
                   mergeCalls, appended>>
    /\ UNCHANGED <<week_list, wi, files0, skipped, generated, failed>>
    /\ UNCHANGED <<evars, mvars>>

\* generate_fat_pdf has returned to main: an error is printed, and the loop
\* takes its next turn.
RunReturns ==
    /\ ppc = "return"
    /\ failed' = IF gresult = "Err" THEN failed \cup {wi} ELSE failed
    /\ ppc' = AfterRun(gresult)
    /\ wi' = wi + 1
    /\ RunLocals
    /\ UNCHANGED <<week_list, files, files0, skipped, generated>>
    /\ UNCHANGED <<evars, mvars>>

----------------------------------------------------------------------------
(* Specifications: each runs one function from its start.                  *)

ExtractNext == OpenPages \/ NextPage \/ NextBlock \/ NextLine

\* extract_exercise_numbers is entered: res is the empty Vec.
ExtractInit ==
    /\ epc = "start" /\ nPages = 0 /\ nBlocks = 0
    /\ text = <<>> /\ res = <<>> /\ eresult = "none"
    /\ mpc = "idle" /\ src = [anc |-> <<>>, pages |-> <<>>] /\ dest = DestDoc(0)
    /\ graft_map = {} /\ pageIdx = 0 /\ nameIdx = 0 /\ dest_page = {}
    /\ graftCalls = 0 /\ mresult = "none"
    /\ ppc = "idle" /\ week_list = <<>> /\ wi = 0
    /\ files = [f \in FileNames |-> NoFile] /\ files0 = files
    /\ skipped = {} /\ generated = {} /\ failed = {}
    /\ pdf = NoBytes /\ doc = NoDoc /\ exercise_numbers = <<>> /\ extracted = FALSE
    /\ exercises_pdf = NoBytes /\ reqs = <<>> /\ mergeCalls = 0 /\ appended = 0
    /\ saved = "none" /\ failedAt = "" /\ gresult = "none"

SpecExtract == ExtractInit /\ [][ExtractNext]_vars

MergeNext == OpenMerge \/ FindPage \/ CopyAttr \/ AddPage

\* merge_pdf_document is entered with a destination and a source document.
MergeInit ==
    /\ mpc = "start"
    /\ src \in SrcDocs
    /\ dest \in {DestDoc(m) : m \in 0..MaxDestPages}
    /\ graft_map = {} /\ pageIdx = 0 /\ nameIdx = 0 /\ dest_page = {}
    /\ graftCalls = 0 /\ mresult = "none"
    /\ epc = "idle" /\ nPages = 0 /\ nBlocks = 0
    /\ text = <<>> /\ res = <<>> /\ eresult = "none"
    /\ ppc = "idle" /\ week_list = <<>> /\ wi = 0
    /\ files = [f \in FileNames |-> NoFile] /\ files0 = files
    /\ skipped = {} /\ generated = {} /\ failed = {}
    /\ pdf = NoBytes /\ doc = NoDoc /\ exercise_numbers = <<>> /\ extracted = FALSE
    /\ exercises_pdf = NoBytes /\ reqs = <<>> /\ mergeCalls = 0 /\ appended = 0
    /\ saved = "none" /\ failedAt = "" /\ gresult = "none"

SpecMerge == MergeInit /\ [][MergeNext]_vars

MainNext ==
    \/ FetchWeekList \/ LoopTop \/ FetchPrimary \/ ParsePrimary \/ Extract
    \/ FetchExercises \/ ParseAndMerge \/ Save \/ RunReturns

\* main is entered: some of the output files may be there from an earlier run.
MainInit ==
    /\ ppc = "fetch_week_list" /\ week_list = <<>> /\ wi = 0
    /\ files \in [FileNames -> {NoFile, OldFile}] /\ files0 = files
    /\ skipped = {} /\ generated = {} /\ failed = {}
    /\ pdf = NoBytes /\ doc = NoDoc /\ exercise_numbers = <<>> /\ extracted = FALSE
    /\ exercises_pdf = NoBytes /\ reqs = <<>> /\ mergeCalls = 0 /\ appended = 0
    /\ saved = "none" /\ failedAt = "" /\ gresult = "none"
    /\ epc = "idle" /\ nPages = 0 /\ nBlocks = 0
    /\ text = <<>> /\ res = <<>> /\ eresult = "none"
    /\ mpc = "idle" /\ src = [anc |-> <<>>, pages |-> <<>>] /\ dest = DestDoc(0)
    /\ graft_map = {} /\ pageIdx = 0 /\ nameIdx = 0 /\ dest_page = {}
    /\ graftCalls = 0 /\ mresult = "none"

SpecMain == MainInit /\ [][MainNext]_vars
----------------------------------------------------------------------------
(* Properties of extract_exercise_numbers, under SpecExtract.              *)

Elems(seq) == {seq[k] : k \in 1..Len(seq)}

\* The candidate after the marker occurrence at offset at of a line string.
CandidateAt(string, at) ==
    LET from == at + Len(ccinp)
        sp == Find(Slice(string, from, Len(string)), " ")
    IN  Slice(string, from, IF sp = None THEN Len(string) ELSE from + sp)

MarkerOffsets(string) ==
    {i \in 0..(Len(string) - Len(ccinp)) : Slice(string, i, i + Len(ccinp)) = ccinp}

\* The integers that follow some occurrence of the marker in a line string.
MarkerNumbers(string) ==
    {ParseI32(CandidateAt(string, at)).val :
        at \in {i \in MarkerOffsets(string) : ParseI32(CandidateAt(string, i)).ok}}

\* The line has a marker, and the candidate after its first occurrence is no i32.
BadCandidate(string) ==
    /\ MarkerOffsets(string) # {}
    /\ ~ParseI32(CandidateAt(string, SetMin(MarkerOffsets(string)))).ok

\* The line has a marker whose first occurrence is followed by an i32.
GoodCandidate(string) ==
    /\ MarkerOffsets(string) # {}
    /\ ParseI32(CandidateAt(string, SetMin(MarkerOffsets(string)))).ok

FirstNumber(string) == ParseI32(CandidateAt(string, SetMin(MarkerOffsets(string)))).val

\* C4: every occurrence of the marker in the scanned text that is followed by
\* a valid integer contributes that integer to the result, also when several
\* occurrences lie on one line ("CCINP 12 foo CCINP 7 CCINP 12" gives 12 and 7).
C4_EveryMarkerOccurrenceExtracted ==
    \A k \in 1..Len(text) : MarkerNumbers(text[k]) \subseteq Elems(res)

\* C8: every element of the result is a non-negative integer.
C8_ResultNonNegative == \A k \in 1..Len(res) : res[k] >= 0

\* C7 as stated, its last part: a scan that has ended over a text with no
\* valid match has ended Ok with an empty result.
C7_NoMatchYieldsOk ==
    (epc = "done" /\ \A k \in 1..Len(text) : ~GoodCandidate(text[k]))
        => (eresult = "Ok" /\ res = <<>>)

C7_StateInv ==
    /\ \A k \in 1..Len(text) :
          GoodCandidate(text[k]) => FirstNumber(text[k]) \in Elems(res)
    /\ Elems(res) \subseteq
          {FirstNumber(text[k]) : k \in {j \in 1..Len(text) : GoodCandidate(text[j])}}
    /\ (eresult = "Ok" /\ \A k \in 1..Len(text) : ~GoodCandidate(text[k]))
          => res = <<>>

C7_LineStep ==
    /\ (Len(text') = Len(text) + 1 /\ BadCandidate(text'[Len(text')]))
          => (res' = res /\ eresult' = eresult /\ epc' = epc)
    /\ (eresult' = "Err" /\ eresult # "Err") => epc \in {"start", "pages"}

\* C7, amended: a line whose candidate does not parse as an i32 adds no entry
\* and does not end the scan; the integers of the other lines are all in the
\* result; only a failing page access makes the scan return Err, and a scan
\* that returns Ok over a text with no valid match returns an empty result.
C7_Tolerance == [](C7_StateInv) /\ [][C7_LineStep]_vars

\* A scan ended Ok in which a bad candidate was followed by a good one.
C7_Witness ==
    /\ eresult = "Ok"
    /\ \E j, k \in 1..Len(text) :
          j < k /\ BadCandidate(text[j]) /\ GoodCandidate(text[k])
    /\ res # <<>>

RECURSIVE FirstOccurrences(_)
FirstOccurrences(seq) ==
    IF seq = <<>> THEN <<>>
    ELSE LET front == FirstOccurrences(SubSeq(seq, 1, Len(seq) - 1))
             last == seq[Len(seq)]
         IN  IF last \in Elems(front) THEN front ELSE Append(front, last)

\* The integers the scan accepted, one per line with a good candidate, in order.
RECURSIVE Accepted(_)
Accepted(lines) ==
    IF lines = <<>> THEN <<>>
    ELSE LET front == Accepted(SubSeq(lines, 1, Len(lines) - 1))
             last == lines[Len(lines)]
         IN  IF GoodCandidate(last) THEN Append(front, FirstNumber(last)) ELSE front

C10_StateInv ==
    /\ \A j, k \in 1..Len(res) : j # k => res[j] # res[k]
    /\ res = FirstOccurrences(Accepted(text))

C10_Step ==
    \/ res' = res
    \/ /\ Len(res') = Len(res) + 1
       /\ SubSeq(res', 1, Len(res)) = res
       /\ res'[Len(res')] \notin Elems(res)

\* C10: the result never holds an integer twice, and it lists the accepted
\* integers in the order of their first occurrence in the text: a step leaves
\* the result alone or appends one integer that was not in it.
C10_Uniqueness == [](C10_StateInv) /\ [][C10_Step]_vars

C10_Witness ==
    /\ Len(res) = 2
    /\ Len(text) = 3
    /\ GoodCandidate(text[3]) /\ FirstNumber(text[3]) = res[1]

----------------------------------------------------------------------------
(* Properties of merge_pdf_document, under SpecMerge.                      *)

ToCopyNames == {to_copy[x] : x \in 1..Len(to_copy)}

\* The destination's pages before the call: the objects its table began with.
OldCount == Cardinality({t \in 1..Len(dest.table) : dest.table[t].o = "old"})

C1_StateInv ==
    mresult = "Ok" =>
        /\ Len(dest.pages) = OldCount + Len(src.pages)
        /\ \A j \in 1..OldCount : dest.pages[j] = j
        /\ \A j \in 1..Len(src.pages) :
              /\ dest.table[dest.pages[OldCount + j]].o = "page"
              /\ dest.table[dest.pages[OldCount + j]].from = j - 1

C1_Step ==
    /\ Len(dest.pages') >= Len(dest.pages)
    /\ SubSeq(dest.pages', 1, Len(dest.pages)) = dest.pages

\* C1: a merge that returns Ok leaves the destination's pages D1..Dm followed
\* by the copies of P1..Pn in source order, and no step moves, removes or
\* reorders a page that is already there.
C1_OrderPreserved == [](C1_StateInv) /\ [][C1_Step]_vars

C1_Witness ==
    /\ mresult = "Ok"
    /\ OldCount >= 1
    /\ Len(src.pages) >= 2
    /\ src.pages[1] # src.pages[2]

\* The dictionaries a name of source page j is looked up in, nearest first.
LookupChain(j) == <<src.pages[j + 1]>> \o src.anc

Resolves(j, name) == \E x \in 1..Len(LookupChain(j)) : HasKey(LookupChain(j)[x], name)

SourceValue(j, name) ==
    LET first == SetMin({x \in 1..Len(LookupChain(j)) : HasKey(LookupChain(j)[x], name)})
    IN  DictGet(LookupChain(j)[first], name)

\* v is the grafted equivalent of the source value u.
IsGraftOf(v, u) ==
    IF u.kind = "ref"
    THEN /\ v.kind = "ref"
         /\ <<u.v, v.v>> \in graft_map
         /\ dest.table[v.v].o = "graft"
         /\ dest.table[v.v].from = u.v
    ELSE v = u

\* C2: every destination page the merge has built carries, for each name of
\* the allow-list, the grafted value of the source page's own or inherited
\* attribute, omits the names that do not resolve, and has no other entry
\* than Type = Page.
C2_AttributeFidelity ==
    \A t \in 1..Len(dest.table) :
        dest.table[t].o = "page" =>
            LET d == dest.table[t].dict
                j == dest.table[t].from
            IN  /\ \A name \in ToCopyNames :
                      IF Resolves(j, name)
                      THEN /\ HasKey(d, name)
                           /\ IsGraftOf(DictGet(d, name), SourceValue(j, name))
                      ELSE ~HasKey(d, name)
                /\ {p[1] : p \in d} \subseteq ToCopyNames \cup {"Type"}
                /\ <<"Type", PageName>> \in d
                /\ \A p, q \in d : p[1] = q[1] => p = q

\* A merge ended Ok that built a page with an inherited attribute, a name
\* that does not resolve, and a source attribute outside the allow-list.
C2_Witness ==
    /\ mresult = "Ok"
    /\ \E j \in 0..(Len(src.pages) - 1) :
          /\ \E name \in ToCopyNames :
                Resolves(j, name) /\ ~HasKey(src.pages[j + 1], name)
          /\ \E name \in ToCopyNames : ~Resolves(j, name)
          /\ HasKey(src.pages[j + 1], "Annots")

RECURSIVE Reach(_)
Reach(S) ==
    LET T == S \cup UNION {{SrcRefs[n][x] : x \in 1..Len(SrcRefs[n])} : n \in S}
    IN  IF T = S THEN S ELSE Reach(T)

\* The source objects the attributes of the source pages refer to.
AttributeObjects ==
    {SourceValue(j, name).v :
        <<j, name>> \in {q \in (0..(Len(src.pages) - 1)) \X ToCopyNames :
                            Resolves(q[1], q[2]) /\ SourceValue(q[1], q[2]).kind = "ref"}}

GraftedSlots == {t \in 1..Len(dest.table) : dest.table[t].o = "graft"}

C3_StateInv ==
    /\ \A p, q \in graft_map : (p[1] = q[1] \/ p[2] = q[2]) => p = q
    /\ \A p \in graft_map : p[2] \in GraftedSlots /\ dest.table[p[2]].from = p[1]
    /\ \A t \in GraftedSlots : <<dest.table[t].from, t>> \in graft_map
    /\ Cardinality(GraftedSlots) = Cardinality({p[1] : p \in graft_map})
    /\ mresult = "Ok" => {p[1] : p \in graft_map} = Reach(AttributeObjects)

C3_Step == graft_map \subseteq graft_map'

\* C3: within one merge the map pairs each source object with one object of
\* the destination, a pair once made is kept (grafting the same source object
\* again returns the same destination object), and the destination holds one
\* grafted object per distinct source object grafted, however many calls of
\* graft_object there were.
C3_IdempotentGrafting == [](C3_StateInv) /\ [][C3_Step]_vars

\* A merge ended Ok after more graft_object calls on indirect objects than
\* there are distinct objects: two pages use the same source object.
C3_Witness ==
    /\ mresult = "Ok"
    /\ \E j1, j2 \in 0..(Len(src.pages) - 1) :
          /\ j1 # j2
          /\ Resolves(j1, "Resources") /\ Resolves(j2, "Resources")
          /\ SourceValue(j1, "Resources") = SourceValue(j2, "Resources")
          /\ SourceValue(j1, "Resources").kind = "ref"
    /\ graftCalls > Cardinality(GraftedSlots)

----------------------------------------------------------------------------
(* Properties of generate_fat_pdf and main, under SpecMain.                *)

\* The step-by-step merge and the merge generate_fat_pdf calls agree.
MergeAgrees ==
    mresult = "Ok" => dest = MergePages(DestDoc(OldCount), src, Len(src.pages)).dest

ThisFile == files[OutputFilename(wi)]

\* The call has come past an extraction that found nothing.
EmptySetFound ==
    ppc \in {"request2", "merge", "save", "return"} /\ extracted /\ exercise_numbers = <<>>

\* C5 as stated: after an extraction that yields an empty set no exercises
\* PDF is requested, the merge is not called, the colle PDF is saved with its
\* pages unchanged and the call returns Ok.
C5_EmptySetReturnsOk ==
    (ppc = "return" /\ extracted /\ exercise_numbers = <<>>) =>
        /\ reqs = <<week_list[wi + 1]>>
        /\ mergeCalls = 0
        /\ gresult = "Ok"
        /\ ThisFile = [exists |-> TRUE, by |-> "save", content |-> PagesOf(FromBytes(pdf))]

\* C5, amended: after an extraction that yields an empty set no exercises PDF
\* is requested and the merge is not called; the next step is the save of the
\* document with its pages unchanged, and the call returns Ok, the file
\* holding those pages, exactly when that save succeeds.
C5_EmptySetShortCircuit ==
    EmptySetFound =>
        /\ ppc \in {"save", "return"}
        /\ reqs = <<week_list[wi + 1]>>
        /\ mergeCalls = 0
        /\ PagesOf(doc) = PagesOf(FromBytes(pdf))
        /\ ppc = "return" =>
              /\ saved \in {"Ok", "Err"}
              /\ gresult = "Ok" <=> saved = "Ok"
              /\ saved = "Ok" =>
                    ThisFile = [exists |-> TRUE, by |-> "save",
                                content |-> PagesOf(FromBytes(pdf))]

\* A call returned Ok for a colle PDF whose only markers have bad candidates.
C5_Witness ==
    /\ ppc = "return"
    /\ extracted
    /\ exercise_numbers = <<>>
    /\ \E x \in 1..Len(doc.text) : BadCandidate(doc.text[x])
    /\ gresult = "Ok"

ExercisesStages ==
    {"exercises_request", "exercises_status", "exercises_body", "exercises_parse", "merge"}

C6_StateInv ==
    /\ ppc = "save" =>
          /\ failedAt = "" /\ gresult = "none"
          /\ pdf.kind = "pdf" /\ doc.live /\ extracted
          /\ exercise_numbers # <<>> =>
                /\ exercises_pdf.kind = "pdf"
                /\ mergeCalls = 1
                /\ appended = Len(exercises_pdf.src.pages)
    /\ saved # "none" => ppc = "return"
    /\ (ppc = "return" /\ failedAt \in ExercisesStages) =>
          /\ gresult = "Err"
          /\ saved = "none"
          /\ ThisFile = NoFile

C6_Step ==
    \A f \in FileNames :
        files'[f] # files[f] => (ppc = "save" /\ f = OutputFilename(wi))

\* C6: the save is reached only after every earlier stage of the call has
\* succeeded; a call that fails at the request, status, body or parse of the
\* exercises PDF or in the merge returns Err with no file written for its
\* week, and no step but the save of a week writes a file, and only that
\* week's.
C6_NoOutputOnFailure == [](C6_StateInv) /\ [][C6_Step]_vars

\* The second week's call fails in a merge that had appended a page, and the
\* file the first week's call saved is there.
C6_Witness ==
    /\ ppc = "return"
    /\ failedAt = "merge"
    /\ appended >= 1
    /\ wi = 1
    /\ files[OutputFilename(0)].by = "save"

C9_StateInv ==
    /\ \A j \in 0..(wi - 1) :
          /\ j \in skipped <=> files0[OutputFilename(j)].exists
          /\ j \in generated <=> ~files0[OutputFilename(j)].exists
    /\ failed \subseteq generated
    /\ ppc = "done_ok" => wi = Len(week_list)
    /\ \A j \in wi..(Len(week_list) - 1) :
          j \notin generated => files[OutputFilename(j)] = files0[OutputFilename(j)]

C9_Step ==
    /\ ppc = "return" =>
          /\ ppc' = "loop"
          /\ wi' = wi + 1
          /\ files' = files
          /\ week_list' = week_list
          /\ gresult = "Err" <=> wi \in failed'
    /\ ppc' \in {"panic", "done_ok", "done_err"} => ppc \in {"fetch_week_list", "loop"}
    /\ \A f \in FileNames : f # OutputFilename(wi) => files'[f] = files[f]

\* C9: when generate_fat_pdf returns, Err or Ok alike, the loop takes its next
\* turn with the next week; main ends only from the fetch of the week list or
\* the top of the loop; every week of the list is skipped or generated as the
\* files main found decide, and no week's call touches another week's file.
C9_UnitIsolation == [](C9_StateInv) /\ [][C9_Step]_vars

\* main ended Ok after the first week failed and the second was saved.
C9_Witness ==
    /\ ppc = "done_ok"
    /\ 0 \in failed
    /\ 1 \in generated
    /\ 1 \notin failed
    /\ files[OutputFilename(1)].by = "save"

====
